---- MODULE Spec2Model ----
(***************************************************************************)
(* A model of django_opensearch_dsl/documents.py: the Document class that  *)
(* maps Django model records to OpenSearch documents and synchronises them *)
(* with bulk / parallel_bulk.                                              *)
(*                                                                         *)
(* Python values are represented as follows.                               *)
(*   None             [py |-> "None"]                                      *)
(*   dict (ordered)   [py |-> "dict", items |-> << <<key, value>>, ... >>] *)
(*   a model record   [pk |-> n, val |-> content]                          *)
(*   an action dict   a function whose DOMAIN is the set of its keys       *)
(* User-supplied callables (preparers, the field's value extraction) are   *)
(* uninterpreted: their result is the record of the application.           *)
(*                                                                         *)
(* Left out, since they change no state of the program: the progress lines *)
(* get_indexing_queryset writes when verbose (_eta), and the `refresh` and *)
(* `using` arguments, which update() only forwards to the transport.       *)
(***************************************************************************)
EXTENDS Integers, Sequences, FiniteSets, TLC

(* ------------------------------ bounds --------------------------------- *)
\* primary keys of the backing model's rows are 1..MaxPk
MaxPk == 2
\* longest record list handed to _get_actions / update
MaxList == 2
\* most fields a document type declares
MaxFields == 2
\* the backing table holds rows with primary keys 1..MaxRows
MaxRows == 4
\* largest queryset_pagination (page size) considered
MaxChunk == 2

(* --------------------------- Python values ----------------------------- *)
PyNone == [py |-> "None"]

PyDict(items) == [py |-> "dict", items |-> items]

Pks == 1 .. MaxPk

Contents == {"red", "blue"}

\* django.db.models.Model instances of the backing model
Records == [pk : Pks, val : Contents]

Range(s) == {s[k] : k \in DOMAIN s}

SeqsUpTo(S, n) == UNION {[1 .. k -> S] : k \in 0 .. n}

(* ------------------------------ state ---------------------------------- *)
VARIABLES
  model_field_class_to_field_class, \* the module-level mapping table
  declared_fields,      \* Document._fields: the declared index fields, in order
  methods,              \* preparer methods getattr finds on the instance
  related_instance_to_ignore, \* self._related_instance_to_ignore
  prepared_fields,      \* self._prepared_fields
  methods_at_init,      \* history: `methods` when __init__ ran
  index_name,           \* self._index._name
  indexable,            \* pks for which should_index_object returns True
  id_overridden,        \* whether the document type overrides generate_id
  out,                  \* the last call of a pure operation and what it gave
  table,                \* primary keys of the rows of the backing model
  ordering,             \* the model's Meta.ordering: "pk", "-pk" or "none"
  queryset_pagination,  \* self.django.queryset_pagination
  q_args,               \* filter_, exclude, count of get_indexing_queryset
  qs,                   \* local qs of get_indexing_queryset
  total,                \* local total
  i,                    \* local i, the cursor
  done,                 \* local done
  page,                 \* rows of qs[i : i + chunk_size] not yet yielded
  pcq,                  \* position of the generator
  yielded,              \* history: primary keys yielded so far
  pages,                \* history: page queries made (saturating)
  written,              \* history: another writer changed the table
  parallel_enabled,     \* DODConfig.parallel_enabled()
  rejects,              \* the engine: pks whose actions it reports as failed
  u_args,               \* per update() call: thing, action, parallel, chunk_size
  pc,                   \* per update() call: where the call is
  object_list,          \* per call: local object_list
  parallel,             \* per call: local parallel, resolved
  gen_pos,              \* per call: objects the _get_actions generator consumed
  chunk,                \* per call: actions the transport holds for its next chunk
  submitted,            \* per call, history: actions sent to the engine, in order
  response,             \* per call: what helpers.bulk returned
  result,               \* per call: what update() returned
  transport_error,      \* per call, history: the error the transport raised
  error,                \* per call: the error that left update()
  endpoint_calls,       \* per call, history: calls of bulk / parallel_bulk
  signals               \* history: post_index notifications, in order

qsVars == <<table, ordering, queryset_pagination, q_args, qs, total, i, done,
            page, pcq, yielded, pages, written>>

updVars == <<parallel_enabled, rejects, u_args, pc, object_list, parallel,
             gen_pos, chunk, submitted, response, result, transport_error,
             error, endpoint_calls, signals>>

docVars == <<model_field_class_to_field_class, declared_fields, methods,
             related_instance_to_ignore, prepared_fields, methods_at_init,
             index_name, indexable, id_overridden>>

(* --------------------------- Field Mapper ------------------------------ *)
\* src lines 20-45
FieldMapping ==
  [AutoField |-> "IntegerField",
   BigAutoField |-> "LongField",
   BigIntegerField |-> "LongField",
   BooleanField |-> "BooleanField",
   CharField |-> "TextField",
   DateField |-> "DateField",
   DateTimeField |-> "DateField",
   DecimalField |-> "DoubleField",
   EmailField |-> "TextField",
   FileField |-> "FileField",
   FilePathField |-> "KeywordField",
   FloatField |-> "DoubleField",
   ImageField |-> "FileField",
   IntegerField |-> "IntegerField",
   NullBooleanField |-> "BooleanField",
   PositiveBigIntegerField |-> "LongField",
   PositiveIntegerField |-> "IntegerField",
   PositiveSmallIntegerField |-> "ShortField",
   SlugField |-> "KeywordField",
   SmallIntegerField |-> "ShortField",
   TextField |-> "TextField",
   TimeField |-> "LongField",
   URLField |-> "TextField",
   UUIDField |-> "KeywordField"]

MappedClasses == DOMAIN FieldMapping

\* relational field classes the table has no entry for
UnmappedClasses == {"ForeignKey", "BinaryField", "JSONField"}

\* user subclasses of mapped classes: cls is the concrete class, mro its bases
SubclassFields ==
  {[cls |-> "Custom" \o b, mro |-> <<"Custom" \o b, b>>] : b \in MappedClasses}

\* the relational fields to_field is applied to
ModelFields ==
  {[cls |-> c, mro |-> <<c>>] : c \in MappedClasses \cup UnmappedClasses}
    \cup SubclassFields

AllFieldNames == <<"title", "body", "tags", "owner">>

FieldNames == {AllFieldNames[k] : k \in 1 .. MaxFields}

\* a lookup through the class hierarchy (isinstance-like), not by exact class
to_field_by_mro(field_name, model_field) ==
  LET hits == {k \in DOMAIN model_field.mro :
                 model_field.mro[k] \in DOMAIN model_field_class_to_field_class}
  IN IF hits # {}
       THEN LET k == CHOOSE k \in hits : \A j \in hits : k <= j
            IN [raised |-> "none",
                field |-> [cls |-> model_field_class_to_field_class[model_field.mro[k]],
                           attr |-> field_name]]
       ELSE [raised |-> "ModelFieldNotMappedError", names |-> field_name]

\* Document.to_field: the table indexed by model_field.__class__; KeyError
\* becomes ModelFieldNotMappedError naming the field
to_field(field_name, model_field) ==
  IF model_field.cls \in DOMAIN model_field_class_to_field_class
    THEN [raised |-> "none",
          field |-> [cls |-> model_field_class_to_field_class[model_field.cls],
                     attr |-> field_name]]
    ELSE [raised |-> "ModelFieldNotMappedError", names |-> field_name]

(* ------------------------- Document Preparer --------------------------- *)
PreparerVariants == {"with_related", "plain"}

\* getattr(self, "prepare_<name>_with_related" / "prepare_<name>", None):
\* `meths` holds <<name, variant>> for every such method the instance has
has_method(meths, name, variant) == <<name, variant>> \in meths

\* the extractor init_prepare picks for one field (src lines 144-155)
resolve_plain_first(meths, name, ignore) ==
  IF has_method(meths, name, "plain")
    THEN [kind |-> "plain", name |-> name]
    ELSE IF has_method(meths, name, "with_related")
      THEN [kind |-> "with_related", name |-> name, related_to_ignore |-> ignore]
      ELSE [kind |-> "default", name |-> name, field_value_to_ignore |-> ignore]

resolve(meths, name, ignore) ==
  IF has_method(meths, name, "with_related")
    THEN [kind |-> "with_related", name |-> name, related_to_ignore |-> ignore]
    ELSE IF has_method(meths, name, "plain")
      THEN [kind |-> "plain", name |-> name]
      ELSE [kind |-> "default", name |-> name, field_value_to_ignore |-> ignore]

\* `if not field._path: field._path = [name]` for the DODField instances
with_paths(fields) ==
  [k \in DOMAIN fields |->
     IF fields[k].dod /\ fields[k].path = <<>>
       THEN [fields[k] EXCEPT !.path = <<fields[k].name>>]
       ELSE fields[k]]

\* Document.init_prepare: one (name, field, fn) per declared DODField, in
\* declared order; fields that are not DODField instances are skipped
init_prepare(fields, meths, ignore) ==
  LET d == SelectSeq(with_paths(fields), LAMBDA f : f.dod)
  IN [k \in DOMAIN d |-> <<d[k].name, d[k], resolve(meths, d[k].name, ignore)>>]

\* the application of an extractor to a record
Apply(fn, instance) == [fn |-> fn, arg |-> instance]

\* Document.prepare
prepare(instance) ==
  PyDict([k \in DOMAIN prepared_fields |->
            <<prepared_fields[k][1], Apply(prepared_fields[k][3], instance)>>])

(* --------------------------- Action Builder ---------------------------- *)
\* enums.BulkAction, a str enum: the member compares equal to its value
BulkAction == {"index", "update", "delete"}

\* Document.generate_id; an overriding document type is represented by the
\* scheme  id = -pk
generate_id(object_instance) ==
  IF id_overridden THEN 0 - object_instance.pk ELSE object_instance.pk

\* Document.should_index_object, as overridden by the document type
should_index_object(object_instance) == object_instance.pk \in indexable

\* an action builder that always uses the key "_source"
_prepare_action_source_only(object_instance, action) ==
  [k \in {"_op_type", "_index", "_id", "_source"} |->
     CASE k = "_op_type" -> action
       [] k = "_index" -> index_name
       [] k = "_id" -> generate_id(object_instance)
       [] OTHER -> IF action # "delete" THEN prepare(object_instance) ELSE PyNone]

\* Document._prepare_action
_prepare_action(object_instance, action) ==
  LET payload_key == IF action # "update" THEN "_source" ELSE "doc"
  IN [k \in {"_op_type", "_index", "_id", payload_key} |->
        CASE k = "_op_type" -> action
          [] k = "_index" -> index_name
          [] k = "_id" -> generate_id(object_instance)
          [] OTHER -> IF action # "delete" THEN prepare(object_instance) ELSE PyNone]

\* an action stream that applies should_index_object to DELETE as well
_get_actions_filter_all(objs, action) ==
  LET kept == SelectSeq(objs, LAMBDA o : should_index_object(o))
  IN [k \in DOMAIN kept |-> _prepare_action(kept[k], action)]

\* Document._get_actions, fully consumed
_get_actions(objs, action) ==
  LET kept == SelectSeq(objs,
                        LAMBDA o : action = "delete" \/ should_index_object(o))
  IN [k \in DOMAIN kept |-> _prepare_action(kept[k], action)]

(* -------------------------- Queryset Chunker --------------------------- *)
Rows == 1 .. MaxRows

\* a Q object, by the rows it matches; None and the empty Q() are both falsy
NoQ == [q |-> "none"]

Q(pks) == [q |-> "match", pks |-> pks]

Min2(a, b) == IF a <= b THEN a ELSE b

RECURSIVE Asc(_)
\* the elements of a set of integers in ascending order
Asc(S) ==
  IF S = {} THEN <<>>
  ELSE LET m == CHOOSE x \in S : \A y \in S : x <= y
       IN <<m>> \o Asc(S \ {m})

Desc(S) == LET a == Asc(S) IN [k \in DOMAIN a |-> a[Len(a) + 1 - k]]

Perms(S) ==
  {f \in [1 .. Cardinality(S) -> S] : \A j, k \in DOMAIN f : j # k => f[j] # f[k]}

\* s[lo : hi] of Python, 0-based and clipped
Slice(s, lo, hi) ==
  LET h == Min2(hi, Len(s))
  IN IF lo >= h THEN <<>> ELSE [k \in 1 .. h - lo |-> s[lo + k]]

\* Document.get_queryset: objects.all(), then filter, exclude and the cap
get_queryset(filter_, exclude, count) ==
  [filter_ |-> filter_, exclude |-> exclude,
   is_sliced |-> count.given, high |-> count.n, order_by |-> "default"]

\* the pks of the rows of `rows` the queryset selects, before ordering
Matching(q, rows) ==
  {p \in rows : /\ q.filter_.q = "match" => p \in q.filter_.pks
                /\ q.exclude.q = "match" => p \notin q.exclude.pks}

\* the results the database can give for the queryset: ordered by pk when
\* order_by("pk") was applied, else by the model's default ordering; with no
\* ordering at all the database may return the rows in any order
Evaluate(q, rows) ==
  LET m == Matching(q, rows)
      orders == IF q.order_by = "pk" \/ ordering = "pk" THEN {Asc(m)}
                ELSE IF ordering = "-pk" THEN {Desc(m)}
                ELSE Perms(m)
  IN {IF q.is_sliced THEN Slice(o, 0, q.high) ELSE o : o \in orders}

\* qs.count()
Count(q, rows) ==
  LET n == Cardinality(Matching(q, rows))
  IN IF q.is_sliced THEN Min2(n, q.high) ELSE n

\* the pages the database can give for qs[lo : hi]
EvaluateSlice(q, rows, lo, hi) == {Slice(o, lo, hi) : o \in Evaluate(q, rows)}

\* a chunker that orders by pk only when the queryset IS sliced
order_sliced_only(q) == IF q.is_sliced THEN [q EXCEPT !.order_by = "pk"] ELSE q

\* qs.order_by("pk") if not qs.query.is_sliced else qs   (src line 105)
order_unless_sliced(q) ==
  IF ~q.is_sliced THEN [q EXCEPT !.order_by = "pk"] ELSE q

PagesCap == MaxRows + 2

\* get_indexing_queryset up to the loop: src lines 103-112
Begin ==
  /\ pcq = "start"
  /\ qs' = order_unless_sliced(
             get_queryset(q_args.filter_, q_args.exclude, q_args.count))
  /\ total' = Count(qs', table)
  /\ i' = 0
  /\ done' = 0
  /\ pcq' = "test"
  /\ UNCHANGED <<table, ordering, queryset_pagination, q_args, page, yielded,
                 pages, written>>

\* `while done < total` holds: the query of qs[i : i + chunk_size] runs
ReadPage ==
  /\ pcq = "test"
  /\ done < total
  /\ \E rows \in EvaluateSlice(qs, table, i, i + queryset_pagination) :
       page' = rows
  /\ pages' = Min2(pages + 1, PagesCap)
  /\ pcq' = "iter"
  /\ UNCHANGED <<table, ordering, queryset_pagination, q_args, qs, total, i,
                 done, yielded, written>>

\* `done += 1; yield obj`
Yield ==
  /\ pcq = "iter"
  /\ page # <<>>
  /\ done' = done + 1
  /\ yielded' = Append(yielded, Head(page))
  /\ page' = Tail(page)
  /\ UNCHANGED <<table, ordering, queryset_pagination, q_args, qs, total, i,
                 pcq, pages, written>>

\* the page is used up: `i = min(i + chunk_size, total)`
Advance ==
  /\ pcq = "iter"
  /\ page = <<>>
  /\ i' = Min2(i + queryset_pagination, total)
  /\ pcq' = "test"
  /\ UNCHANGED <<table, ordering, queryset_pagination, q_args, qs, total, done,
                 page, yielded, pages, written>>

\* `while done < total` fails: the generator is exhausted
Exit ==
  /\ pcq = "test"
  /\ ~(done < total)
  /\ pcq' = "end"
  /\ UNCHANGED <<table, ordering, queryset_pagination, q_args, qs, total, i,
                 done, page, yielded, pages, written>>

\* another writer inserts or deletes a row after the count (once)
Write(p) ==
  /\ pcq \in {"test", "iter"}
  /\ ~written
  /\ table' = IF p \in table THEN table \ {p} ELSE table \cup {p}
  /\ written' = TRUE
  /\ UNCHANGED <<ordering, queryset_pagination, q_args, qs, total, i, done,
                 page, pcq, yielded, pages>>

GeneratorStep == Begin \/ ReadPage \/ Yield \/ Advance \/ Exit

\* no get_indexing_queryset call is in progress
QsIdle ==
  /\ table = {}
  /\ ordering = "pk"
  /\ q_args = [filter_ |-> NoQ, exclude |-> NoQ, count |-> [given |-> FALSE, n |-> 0]]
  /\ qs = get_queryset(NoQ, NoQ, [given |-> FALSE, n |-> 0])
  /\ total = 0
  /\ i = 0
  /\ done = 0
  /\ page = <<>>
  /\ pcq = "idle"
  /\ yielded = <<>>
  /\ pages = 0
  /\ written = FALSE

(* -------------------------- Bulk Synchronizer -------------------------- *)
\* update() calls that can be in progress at once
CallIds == {1, 2}

\* errors the transport can raise (connectivity, malformed action, ...)
TransportErrors == {"ConnectionError", "RequestError"}

Nothing == <<>>

Abs(n) == IF n < 0 THEN 0 - n ELSE n

\* whether the engine reports the item of this action as failed
Rejected(a) == Abs(a["_id"]) \in rejects

\* what helpers.bulk reports for the actions it was given:
\* (number of successes, list of the failed items)
BulkResponse(actions) ==
  LET failed == SelectSeq(actions, LAMBDA a : Rejected(a))
  IN <<Len(actions) - Len(failed), [k \in DOMAIN failed |-> failed[k]["_id"]]>>

\* a generator that keeps its position in the first call's frame
gen_frame_shared(c) == 1

\* the frame of the generator _get_actions(object_list, action) of call c:
\* each call of update() creates its own
gen_frame(c) == c

\* the position in object_list of the next object the generator of
\* _get_actions yields an action for, or 0 when it is exhausted
NextKept(c) ==
  LET later == {k \in gen_pos[gen_frame(c)] + 1 .. Len(object_list[c]) :
                  \/ u_args[c].action = "delete"
                  \/ should_index_object(object_list[c][k])}
  IN IF later = {} THEN 0 ELSE CHOOSE k \in later : \A j \in later : k <= j

Exhausted(c) == NextKept(c) = 0

\* `[thing] if isinstance(thing, models.Model) else thing`
Normalised(thing) == IF thing.single THEN <<thing.obj>> ELSE thing.objs

\* update(): the defaults, the normalisation of `thing`, and the dispatch of
\* _bulk to bulk or parallel_bulk with the (unconsumed) action generator
Update(c) ==
  /\ pc[c] = "start"
  /\ LET par == IF u_args[c].parallel = "None" THEN parallel_enabled
                ELSE u_args[c].parallel = "True"
     IN /\ parallel' = [parallel EXCEPT ![c] = par]
        /\ pc' = [pc EXCEPT ![c] = IF par THEN "parallel_bulk" ELSE "bulk"]
  /\ object_list' = [object_list EXCEPT ![c] = Normalised(u_args[c].thing)]
  /\ UNCHANGED <<parallel_enabled, rejects, u_args, gen_pos, chunk, submitted,
                 response, result, transport_error, error, endpoint_calls,
                 signals>>

\* Document.bulk calls helpers.bulk(client, actions, **kwargs)
BulkCall(c) ==
  /\ pc[c] = "bulk"
  /\ endpoint_calls' = [endpoint_calls EXCEPT ![c].bulk = @ + 1]
  /\ pc' = [pc EXCEPT ![c] = "in_bulk"]
  /\ UNCHANGED <<parallel_enabled, rejects, u_args, object_list, parallel,
                 gen_pos, chunk, submitted, response, result, transport_error,
                 error, signals>>

\* the transport takes the next action from the generator and sends it
BulkPull(c) ==
  /\ pc[c] = "in_bulk"
  /\ ~Exhausted(c)
  /\ LET k == NextKept(c)
     IN /\ submitted' = [submitted EXCEPT ![c] =
             Append(@, _prepare_action(object_list[c][k], u_args[c].action))]
        /\ gen_pos' = [gen_pos EXCEPT ![gen_frame(c)] = k]
  /\ UNCHANGED <<parallel_enabled, rejects, u_args, pc, object_list, parallel,
                 chunk, response, result, transport_error, error,
                 endpoint_calls, signals>>

\* helpers.bulk returns once the generator is exhausted
BulkReturn(c) ==
  /\ pc[c] = "in_bulk"
  /\ Exhausted(c)
  /\ response' = [response EXCEPT ![c] = BulkResponse(submitted[c])]
  /\ pc' = [pc EXCEPT ![c] = "notify"]
  /\ UNCHANGED <<parallel_enabled, rejects, u_args, object_list, parallel,
                 gen_pos, chunk, submitted, result, transport_error, error,
                 endpoint_calls, signals>>

\* a bulk that sends no post_index signal
Notify_skipped(c) ==
  /\ pc[c] = "notify"
  /\ pc' = [pc EXCEPT ![c] = "return"]
  /\ UNCHANGED <<parallel_enabled, rejects, u_args, object_list, parallel,
                 gen_pos, chunk, submitted, response, result, transport_error,
                 error, endpoint_calls, signals>>

\* post_index.send(sender, instance, actions, response)
Notify(c) ==
  /\ pc[c] = "notify"
  /\ signals' = Append(signals, [sender |-> c, response |-> response[c]])
  /\ pc' = [pc EXCEPT ![c] = "return"]
  /\ UNCHANGED <<parallel_enabled, rejects, u_args, object_list, parallel,
                 gen_pos, chunk, submitted, response, result, transport_error,
                 error, endpoint_calls>>

\* `return response`, through _bulk and update
BulkDone(c) ==
  /\ pc[c] = "return"
  /\ result' = [result EXCEPT ![c] = response[c]]
  /\ pc' = [pc EXCEPT ![c] = "returned"]
  /\ UNCHANGED <<parallel_enabled, rejects, u_args, object_list, parallel,
                 gen_pos, chunk, submitted, response, transport_error, error,
                 endpoint_calls, signals>>

\* kwargs.setdefault("chunk_size", self.django.queryset_pagination)
ChunkSize(c) ==
  IF u_args[c].chunk_size.given THEN u_args[c].chunk_size.n
  ELSE queryset_pagination

\* a parallel_bulk that returns the placeholder without consuming the lazy
\* result stream
ParallelBulkCall_no_drain(c) ==
  /\ pc[c] = "parallel_bulk"
  /\ endpoint_calls' = [endpoint_calls EXCEPT ![c].parallel_bulk = @ + 1]
  /\ result' = [result EXCEPT ![c] = <<1, <<>>>>]
  /\ pc' = [pc EXCEPT ![c] = "returned"]
  /\ UNCHANGED <<parallel_enabled, rejects, u_args, object_list, parallel,
                 gen_pos, chunk, submitted, response, transport_error, error,
                 signals>>

\* Document.parallel_bulk calls helpers.parallel_bulk, which only creates the
\* lazy result stream, and starts deque(bulk_actions, maxlen=0)
ParallelBulkCall(c) ==
  /\ pc[c] = "parallel_bulk"
  /\ endpoint_calls' = [endpoint_calls EXCEPT ![c].parallel_bulk = @ + 1]
  /\ pc' = [pc EXCEPT ![c] = "drain"]
  /\ UNCHANGED <<parallel_enabled, rejects, u_args, object_list, parallel,
                 gen_pos, chunk, submitted, response, result, transport_error,
                 error, signals>>

\* the deque pulls on the result stream: the transport takes the next action
\* from the generator into the chunk it is filling
DrainPull(c) ==
  /\ pc[c] = "drain"
  /\ ~Exhausted(c)
  /\ Len(chunk[c]) < ChunkSize(c)
  /\ LET k == NextKept(c)
     IN /\ chunk' = [chunk EXCEPT ![c] =
             Append(@, _prepare_action(object_list[c][k], u_args[c].action))]
        /\ gen_pos' = [gen_pos EXCEPT ![gen_frame(c)] = k]
  /\ UNCHANGED <<parallel_enabled, rejects, u_args, pc, object_list, parallel,
                 submitted, response, result, transport_error, error,
                 endpoint_calls, signals>>

\* a chunk is full, or is the last one: it is sent, and its per-item results
\* come back on the result stream, where the deque drops them
DrainSubmit(c) ==
  /\ pc[c] = "drain"
  /\ chunk[c] # <<>>
  /\ Len(chunk[c]) >= ChunkSize(c) \/ Exhausted(c)
  /\ submitted' = [submitted EXCEPT ![c] = @ \o chunk[c]]
  /\ chunk' = [chunk EXCEPT ![c] = <<>>]
  /\ UNCHANGED <<parallel_enabled, rejects, u_args, pc, object_list, parallel,
                 gen_pos, response, result, transport_error, error,
                 endpoint_calls, signals>>

\* the result stream ends: `return 1, []`
DrainDone(c) ==
  /\ pc[c] = "drain"
  /\ Exhausted(c)
  /\ chunk[c] = <<>>
  /\ result' = [result EXCEPT ![c] = <<1, <<>>>>]
  /\ pc' = [pc EXCEPT ![c] = "returned"]
  /\ UNCHANGED <<parallel_enabled, rejects, u_args, object_list, parallel,
                 gen_pos, chunk, submitted, response, transport_error, error,
                 endpoint_calls, signals>>

\* a bulk that catches the transport's error and returns an empty response
TransportRaises_swallowed(c, e) ==
  /\ pc[c] \in {"in_bulk", "drain"}
  /\ transport_error' = [transport_error EXCEPT ![c] = e]
  /\ response' = [response EXCEPT ![c] = <<0, <<>>>>]
  /\ pc' = [pc EXCEPT ![c] = "notify"]
  /\ UNCHANGED <<parallel_enabled, rejects, u_args, object_list, parallel,
                 gen_pos, chunk, submitted, result, error, endpoint_calls,
                 signals>>

\* the transport raises inside helpers.bulk or inside the draining of
\* helpers.parallel_bulk: nothing catches it up to the caller of update()
TransportRaises(c, e) ==
  /\ pc[c] \in {"in_bulk", "drain"}
  /\ transport_error' = [transport_error EXCEPT ![c] = e]
  /\ error' = [error EXCEPT ![c] = e]
  /\ pc' = [pc EXCEPT ![c] = "raised"]
  /\ UNCHANGED <<parallel_enabled, rejects, u_args, object_list, parallel,
                 gen_pos, chunk, submitted, response, result, endpoint_calls,
                 signals>>

NoArgs ==
  [thing |-> [single |-> FALSE, objs |-> <<>>], action |-> "index",
   parallel |-> "None", chunk_size |-> [given |-> FALSE, n |-> 0]]

\* the per-call state of update() calls before they run
FreshCalls ==
  /\ object_list = [c \in CallIds |-> <<>>]
  /\ parallel = [c \in CallIds |-> FALSE]
  /\ gen_pos = [c \in CallIds |-> 0]
  /\ chunk = [c \in CallIds |-> <<>>]
  /\ submitted = [c \in CallIds |-> <<>>]
  /\ response = [c \in CallIds |-> Nothing]
  /\ result = [c \in CallIds |-> Nothing]
  /\ transport_error = [c \in CallIds |-> "none"]
  /\ error = [c \in CallIds |-> "none"]
  /\ endpoint_calls = [c \in CallIds |-> [bulk |-> 0, parallel_bulk |-> 0]]
  /\ signals = <<>>

\* no update() call is made
UpdIdle ==
  /\ parallel_enabled = FALSE
  /\ rejects = {}
  /\ u_args = [c \in CallIds |-> NoArgs]
  /\ pc = [c \in CallIds |-> "unused"]
  /\ FreshCalls

(* ---------------------- document types and calls ----------------------- *)
AllMethods == FieldNames \X PreparerVariants

\* a declared field: dod says whether it is a fields.DODField instance
DeclaredField(name, dod) == [name |-> name, dod |-> dod, path |-> <<>>]

\* Document._fields of the document types considered: distinct names, in any
\* declared order, each a DODField or a plain opensearchpy field
DocTypes ==
  {f \in SeqsUpTo([name : FieldNames, dod : BOOLEAN, path : {<<>>}], MaxFields) :
     \A j, k \in DOMAIN f : j # k => f[j].name # f[k].name}

\* related_instance_to_ignore: None or a record
Ignorable == {PyNone, [pk |-> 1, val |-> "red"]}

NoCall == [op |-> "none"]

\* Document.__init__ on a document type with these fields and methods
Constructed(fields, meths, ignore) ==
  /\ related_instance_to_ignore = ignore
  /\ prepared_fields = init_prepare(fields, meths, ignore)
  /\ declared_fields = with_paths(fields)
  /\ methods = meths
  /\ methods_at_init = meths

\* Document(related_instance_to_ignore=ignore): a new instance of the type
Construct(ignore) ==
  /\ related_instance_to_ignore' = ignore
  /\ prepared_fields' = init_prepare(declared_fields, methods, ignore)
  /\ declared_fields' = with_paths(declared_fields)
  /\ methods_at_init' = methods
  /\ out' = NoCall
  /\ UNCHANGED <<model_field_class_to_field_class, methods, index_name,
                 indexable, id_overridden, qsVars, updVars>>

\* a preparer method is added to, or removed from, the document after the
\* instance was constructed (at most once per instance)
PatchMethod(m) ==
  /\ methods = methods_at_init
  /\ methods' = IF m \in methods THEN methods \ {m} ELSE methods \cup {m}
  /\ UNCHANGED <<model_field_class_to_field_class, declared_fields,
                 related_instance_to_ignore, prepared_fields, methods_at_init,
                 index_name, indexable, id_overridden, out, qsVars, updVars>>

CallPrepare(instance) ==
  /\ out.op = "none"
  /\ out' = [op |-> "prepare", instance |-> instance, result |-> prepare(instance)]
  /\ UNCHANGED <<docVars, qsVars, updVars>>

CallToField(field_name, model_field) ==
  /\ out.op = "none"
  /\ out' = [op |-> "to_field", field_name |-> field_name,
             model_field |-> model_field,
             result |-> to_field(field_name, model_field)]
  /\ UNCHANGED <<docVars, qsVars, updVars>>

CallPrepareAction(instance, action) ==
  /\ out.op = "none"
  /\ out' = [op |-> "_prepare_action", instance |-> instance, action |-> action,
             result |-> _prepare_action(instance, action)]
  /\ UNCHANGED <<docVars, qsVars, updVars>>

CallGetActions(objs, action) ==
  /\ out.op = "none"
  /\ out' = [op |-> "_get_actions", object_list |-> objs,
             action |-> action, result |-> _get_actions(objs, action)]
  /\ UNCHANGED <<docVars, qsVars, updVars>>

\* the caller takes the result of the last call
TakeResult ==
  /\ out.op # "none"
  /\ out' = NoCall
  /\ UNCHANGED <<docVars, qsVars, updVars>>

vars == <<docVars, out, qsVars, updVars>>

\* --- the Document Preparer: construction, later method changes, prepare
InitPrepare ==
  /\ model_field_class_to_field_class = FieldMapping
  /\ \E fields \in DocTypes, meths \in SUBSET AllMethods, ignore \in Ignorable :
       Constructed(fields, meths, ignore)
  /\ index_name = "cars"
  /\ indexable = Pks
  /\ id_overridden = FALSE
  /\ out = NoCall
  /\ queryset_pagination = 1
  /\ QsIdle
  /\ UpdIdle

NextPrepare ==
  \/ \E ignore \in Ignorable : Construct(ignore)
  \/ \E m \in AllMethods : PatchMethod(m)
  \/ \E r \in Records : CallPrepare(r)
  \/ TakeResult

SpecPrepare == InitPrepare /\ [][NextPrepare]_vars

\* --- the Field Mapper and the Action Builder as functions of their inputs
DemoDocs ==
  {[fields |-> <<DeclaredField("title", TRUE)>>, methods |-> {}],
   [fields |-> <<DeclaredField("title", TRUE), DeclaredField("body", FALSE)>>,
    methods |-> {<<"title", "plain">>}]}

InitDoc ==
  /\ model_field_class_to_field_class = FieldMapping
  /\ \E d \in DemoDocs : Constructed(d.fields, d.methods, PyNone)
  /\ index_name \in {"cars", "books"}
  /\ indexable \in SUBSET Pks
  /\ id_overridden \in BOOLEAN

InitFn ==
  /\ InitDoc
  /\ out = NoCall
  /\ queryset_pagination = 1
  /\ QsIdle
  /\ UpdIdle

NextFn ==
  \/ \E n \in FieldNames, mf \in ModelFields : CallToField(n, mf)
  \/ \E r \in Records, a \in BulkAction : CallPrepareAction(r, a)
  \/ \E l \in SeqsUpTo(Records, MaxList), a \in BulkAction : CallGetActions(l, a)
  \/ TakeResult

SpecFn == InitFn /\ [][NextFn]_vars

\* --- the Queryset Chunker: one get_indexing_queryset call, fully consumed,
\* with another writer on the same table
FilterChoices == {NoQ, Q(Rows \ {1})}

ExcludeChoices == {NoQ, Q({MaxRows})}

CountChoices ==
  {[given |-> FALSE, n |-> 0]} \cup {[given |-> TRUE, n |-> n] : n \in 0 .. MaxRows}

InitQS ==
  /\ model_field_class_to_field_class = FieldMapping
  /\ Constructed(<<DeclaredField("title", TRUE)>>, {}, PyNone)
  /\ index_name = "cars"
  /\ indexable = Pks
  /\ id_overridden = FALSE
  /\ out = NoCall
  /\ table \in SUBSET Rows
  /\ ordering \in {"pk", "-pk", "none"}
  /\ queryset_pagination \in 1 .. MaxChunk
  /\ q_args \in [filter_ : FilterChoices, exclude : ExcludeChoices,
                 count : CountChoices]
  /\ qs = get_queryset(NoQ, NoQ, [given |-> FALSE, n |-> 0])
  /\ total = 0
  /\ i = 0
  /\ done = 0
  /\ page = <<>>
  /\ pcq = "start"
  /\ yielded = <<>>
  /\ pages = 0
  /\ written = FALSE
  /\ UpdIdle

NextQS ==
  \/ (Begin /\ UNCHANGED <<docVars, out, updVars>>)
  \/ (ReadPage /\ UNCHANGED <<docVars, out, updVars>>)
  \/ (Yield /\ UNCHANGED <<docVars, out, updVars>>)
  \/ (Advance /\ UNCHANGED <<docVars, out, updVars>>)
  \/ (Exit /\ UNCHANGED <<docVars, out, updVars>>)
  \/ \E p \in Rows : (Write(p) /\ UNCHANGED <<docVars, out, updVars>>)

SpecQS == InitQS /\ [][NextQS]_vars

\* the consumer keeps pulling records: every generator step that stays
\* possible is eventually taken
FairQS == SpecQS /\ WF_vars(GeneratorStep /\ UNCHANGED <<docVars, out, updVars>>)

\* --- the Bulk Synchronizer: update() calls
\* records handed to update(): their content plays no part in the dispatch
UpdRecords == {r \in Records : r.val = "red"}

\* `thing`: one record (normalised to [thing]) or an iterable of records
Things ==
  {[single |-> TRUE, obj |-> r] : r \in UpdRecords}
    \cup {[single |-> FALSE, objs |-> l] : l \in SeqsUpTo(UpdRecords, MaxList)}

ChunkSizeChoices ==
  {[given |-> FALSE, n |-> 0]} \cup {[given |-> TRUE, n |-> n] : n \in 1 .. MaxChunk}

UpdateArgs ==
  {[thing |-> t, action |-> a, parallel |-> p, chunk_size |-> n] :
     t \in Things, a \in BulkAction, p \in {"None", "True", "False"},
     n \in ChunkSizeChoices}

InitUpdDoc ==
  /\ model_field_class_to_field_class = FieldMapping
  /\ Constructed(<<DeclaredField("title", TRUE)>>, {<<"title", "plain">>}, PyNone)
  /\ index_name = "cars"
  /\ indexable \in {Pks, Pks \ {1}}
  /\ id_overridden = FALSE
  /\ out = NoCall
  /\ queryset_pagination \in 1 .. MaxChunk
  /\ QsIdle
  /\ rejects \in {{}, {MaxPk}}
  /\ FreshCalls

\* one update() call
InitUpdate ==
  /\ InitUpdDoc
  /\ parallel_enabled \in BOOLEAN
  /\ \E a \in UpdateArgs : u_args = [c \in CallIds |-> IF c = 1 THEN a ELSE NoArgs]
  /\ pc = [c \in CallIds |-> IF c = 1 THEN "start" ELSE "unused"]

NextUpdate ==
  \/ \E c \in CallIds : (Update(c) /\ UNCHANGED <<docVars, out, qsVars>>)
  \/ \E c \in CallIds : (BulkCall(c) /\ UNCHANGED <<docVars, out, qsVars>>)
  \/ \E c \in CallIds : (BulkPull(c) /\ UNCHANGED <<docVars, out, qsVars>>)
  \/ \E c \in CallIds : (BulkReturn(c) /\ UNCHANGED <<docVars, out, qsVars>>)
  \/ \E c \in CallIds : (Notify(c) /\ UNCHANGED <<docVars, out, qsVars>>)
  \/ \E c \in CallIds : (BulkDone(c) /\ UNCHANGED <<docVars, out, qsVars>>)
  \/ \E c \in CallIds : (ParallelBulkCall(c) /\ UNCHANGED <<docVars, out, qsVars>>)
  \/ \E c \in CallIds : (DrainPull(c) /\ UNCHANGED <<docVars, out, qsVars>>)
  \/ \E c \in CallIds : (DrainSubmit(c) /\ UNCHANGED <<docVars, out, qsVars>>)
  \/ \E c \in CallIds : (DrainDone(c) /\ UNCHANGED <<docVars, out, qsVars>>)
  \/ \E c \in CallIds, e \in TransportErrors :
       (TransportRaises(c, e) /\ UNCHANGED <<docVars, out, qsVars>>)

SpecUpdate == InitUpdate /\ [][NextUpdate]_vars

\* two concurrent update() calls on the same document instance, each with
\* its own list of at most MaxConcList records of the first two rows
MaxConcList == 2

ConcArgs ==
  {a \in UpdateArgs : /\ ~a.thing.single
                      /\ Len(Normalised(a.thing)) <= MaxConcList
                      /\ \A k \in DOMAIN a.thing.objs : a.thing.objs[k].pk <= 2
                      /\ a.parallel # "None"
                      /\ ~a.chunk_size.given}

InitConc ==
  /\ InitUpdDoc
  /\ queryset_pagination = MaxChunk
  /\ indexable = Pks \ {1}
  /\ rejects = {MaxPk}
  /\ parallel_enabled = FALSE
  /\ u_args \in [CallIds -> ConcArgs]
  /\ pc = [c \in CallIds |-> "start"]

SpecConc == InitConc /\ [][NextUpdate]_vars

(* ------------------------------ claims --------------------------------- *)
\* C9: to_field returns, for a relational field whose concrete class is a key
\* of the mapping table, an index field of exactly the mapped type bound to
\* field_name; for any other concrete class (a subclass of a mapped class
\* included) it fails with ModelFieldNotMappedError naming the field; the
\* table is never changed.
C9_ToFieldExact ==
  /\ model_field_class_to_field_class = FieldMapping
  /\ out.op = "to_field" =>
       IF out.model_field.cls \in DOMAIN FieldMapping
         THEN /\ out.result.raised = "none"
              /\ out.result.field.cls = FieldMapping[out.model_field.cls]
              /\ out.result.field.attr = out.field_name
         ELSE /\ out.result.raised = "ModelFieldNotMappedError"
              /\ out.result.names = out.field_name

C9_Witness ==
  /\ out.op = "to_field"
  /\ out.model_field \in SubclassFields
  /\ out.result.raised = "ModelFieldNotMappedError"

\* the id _prepare_action must give a record
ExpectedId(r) == IF id_overridden THEN 0 - r.pk ELSE r.pk

DescriptorHeadOk(d, r, a) ==
  /\ d["_op_type"] = a
  /\ d["_index"] = index_name
  /\ d["_id"] = ExpectedId(r)

\* C2 (as stated): the descriptor has _op_type, _index and _id as described,
\* carries its payload under `doc` only for UPDATE, under `_source` only for
\* INDEX, and has neither a `doc` nor a `_source` key for DELETE.
C2_Original ==
  out.op = "_prepare_action" =>
    LET d == out.result
        a == out.action
        r == out.instance
    IN /\ DescriptorHeadOk(d, r, a)
       /\ a = "update" => "doc" \in DOMAIN d /\ "_source" \notin DOMAIN d
       /\ a = "index" => "_source" \in DOMAIN d /\ "doc" \notin DOMAIN d
       /\ a = "delete" => "doc" \notin DOMAIN d /\ "_source" \notin DOMAIN d

\* C2 (amended): as stated for _op_type, _index, _id, UPDATE and INDEX; for
\* DELETE the descriptor has no `doc` key and has the key `_source` with the
\* value None (a null payload), not a missing key.
C2_Descriptor ==
  out.op = "_prepare_action" =>
    LET d == out.result
        a == out.action
        r == out.instance
    IN /\ DescriptorHeadOk(d, r, a)
       /\ a = "update" => /\ DOMAIN d = {"_op_type", "_index", "_id", "doc"}
                          /\ d["doc"] = prepare(r)
       /\ a = "index" => /\ DOMAIN d = {"_op_type", "_index", "_id", "_source"}
                         /\ d["_source"] = prepare(r)
       /\ a = "delete" => /\ DOMAIN d = {"_op_type", "_index", "_id", "_source"}
                          /\ d["_source"] = PyNone

C2_Witness ==
  /\ out.op = "_prepare_action"
  /\ out.action = "delete"
  /\ ~id_overridden
  /\ out.result["_id"] = out.instance.pk

\* C3: the action stream of _get_actions has, for INDEX and UPDATE, an action
\* for exactly the records should_index_object accepts, and for DELETE an
\* action for every record; one action per kept record, in record order.
C3_ActionStream ==
  out.op = "_get_actions" =>
    LET l == out.object_list
        a == out.action
        res == out.result
        K == {k \in DOMAIN l : a = "delete" \/ l[k].pk \in indexable}
        rank(k) == Cardinality({m \in K : m <= k})
    IN /\ Len(res) = Cardinality(K)
       /\ \A k \in K : /\ res[rank(k)]["_id"] = ExpectedId(l[k])
                       /\ res[rank(k)]["_op_type"] = a
                       /\ res[rank(k)] = _prepare_action(l[k], a)

C3_Witness ==
  /\ out.op = "_get_actions"
  /\ out.action = "delete"
  /\ Len(out.object_list) = 2
  /\ \E k \in DOMAIN out.object_list : out.object_list[k].pk \notin indexable
  /\ Len(out.result) = 2

\* the extractor kind the priority gives a field, from the methods the
\* document had when the instance was constructed
ExpectedKind(name) ==
  IF <<name, "with_related">> \in methods_at_init THEN "with_related"
  ELSE IF <<name, "plain">> \in methods_at_init THEN "plain"
  ELSE "default"

PayloadOf(names, res, r) ==
  /\ res.py = "dict"
  /\ Len(res.items) = Len(names)
  /\ \A k \in DOMAIN names :
       /\ res.items[k][1] = names[k]
       /\ res.items[k][2].arg = r
       /\ res.items[k][2].fn.name = names[k]
       /\ res.items[k][2].fn.kind = ExpectedKind(names[k])

\* C8 (as stated): prepare returns exactly the N declared field names as keys,
\* in declared order, each with the value of the extractor chosen at
\* construction by the priority with_related, plain, default.
C8_Original ==
  out.op = "prepare" =>
    PayloadOf([k \in DOMAIN declared_fields |-> declared_fields[k].name],
              out.result, out.instance)

\* C8 (amended): the keys are exactly the declared fields that are DODField
\* instances, in declared order (other declared fields get no key); values
\* and the once-only resolution are as stated.
C8_PreparePayload ==
  out.op = "prepare" =>
    LET d == SelectSeq(declared_fields, LAMBDA f : f.dod)
    IN PayloadOf([k \in DOMAIN d |-> d[k].name], out.result, out.instance)

C8_Witness ==
  /\ out.op = "prepare"
  /\ Len(out.result.items) = 2
  /\ methods # methods_at_init
  /\ \E k \in 1 .. 2 :
       /\ <<out.result.items[k][1], "with_related">> \in methods_at_init
       /\ <<out.result.items[k][1], "plain">> \in methods_at_init
       /\ <<out.result.items[k][1], "with_related">> \notin methods

\* the selection of the call: rows after filter and exclude
Selection == Matching(qs, table)

CeilDiv(a, b) == (a + b - 1) \div b

\* C1 (as stated): with an unchanged selection of T records and page size P,
\* full consumption yields T records, each once, in ascending primary-key
\* order, in ceil(T/P) pages -- for every selection, limited or not.
C1_Original ==
  (pcq = "end" /\ ~written) =>
    /\ Len(yielded) = total
    /\ total = Count(qs, table)
    /\ pages = CeilDiv(total, queryset_pagination)
    /\ \A j, k \in DOMAIN yielded : j < k => yielded[j] < yielded[k]

\* C1 (amended): T records are yielded in ceil(T/P) pages in every case; they
\* are each record of the selection exactly once in ascending primary-key
\* order when no limit is given.  With a limit the code imposes no order: the
\* records come in the model's default ordering (descending for "-pk"), and
\* with no default ordering each page is whatever the database returns.
C1_Pagination ==
  (pcq = "end" /\ ~written) =>
    /\ Len(yielded) = total
    /\ total = Count(qs, table)
    /\ pages = CeilDiv(total, queryset_pagination)
    /\ Range(yielded) \subseteq Selection
    /\ ~qs.is_sliced => yielded = Asc(Selection)
    /\ (qs.is_sliced /\ ordering = "pk") =>
         yielded = Slice(Asc(Selection), 0, qs.high)
    /\ (qs.is_sliced /\ ordering = "-pk") =>
         yielded = Slice(Desc(Selection), 0, qs.high)

C1_Witness ==
  /\ pcq = "end"
  /\ ~written
  /\ ~qs.is_sliced
  /\ q_args.exclude # NoQ
  /\ total = 2
  /\ Cardinality(table) = 3
  /\ queryset_pagination = 1 
  /\ pages = 2
  /\ yielded = Asc(Selection)

\* C7: a consumer that keeps pulling records reaches the end of the
\* sequence, also when another writer changes the selection after the count.
C7_Terminates == <>(pcq = "end")

\* the mode of call c, from its arguments and the configuration
ParallelMode(c) ==
  \/ u_args[c].parallel = "True"
  \/ u_args[c].parallel = "None" /\ parallel_enabled

SequentialMode(c) == pc[c] # "unused" /\ ~ParallelMode(c)

\* the whole action stream of call c
ActionStream(c) ==
  _get_actions(IF u_args[c].thing.single THEN <<u_args[c].thing.obj>>
               ELSE u_args[c].thing.objs,
               u_args[c].action)

SignalsOf(c) == SelectSeq(signals, LAMBDA sig : sig.sender = c)

\* C4: a sequential update() makes one call of the bulk endpoint with the
\* whole action stream, returns the pair the transport reported and emits
\* exactly one completion notification, after the transport returned and with
\* that response; a parallel update() emits none and never calls bulk.
C4_Sequential ==
  \A c \in CallIds :
    /\ (pc[c] = "returned" /\ SequentialMode(c)) =>
         /\ endpoint_calls[c] = [bulk |-> 1, parallel_bulk |-> 0]
         /\ submitted[c] = ActionStream(c)
         /\ result[c] = BulkResponse(ActionStream(c))
         /\ result[c] = response[c]
         /\ SignalsOf(c) = <<[sender |-> c, response |-> result[c]]>>
    /\ Len(SignalsOf(c)) <= 1
    /\ SignalsOf(c) # <<>> =>
         /\ pc[c] \in {"return", "returned"}
         /\ response[c] # Nothing
         /\ SignalsOf(c)[1].response = response[c]
    /\ (pc[c] # "unused" /\ ParallelMode(c)) =>
         /\ SignalsOf(c) = <<>>
         /\ endpoint_calls[c].bulk = 0

C4_Witness ==
  /\ pc[1] = "returned"
  /\ u_args[1].parallel = "None"
  /\ ~parallel_enabled
  /\ Len(submitted[1]) = 2
  /\ result[1][1] = 1
  /\ Len(result[1][2]) = 1
  /\ Len(signals) = 1

\* C5: a parallel update() returns only after the lazy result stream was
\* consumed to its end, every action of the stream having been submitted,
\* and returns (1, []) whatever the chunks reported.
C5_ParallelDrained ==
  \A c \in CallIds :
    (pc[c] = "returned" /\ ParallelMode(c)) =>
      /\ result[c] = <<1, <<>>>>
      /\ submitted[c] = ActionStream(c)
      /\ chunk[c] = <<>>
      /\ endpoint_calls[c] = [bulk |-> 0, parallel_bulk |-> 1]

C5_Witness ==
  /\ pc[1] = "returned"
  /\ ParallelMode(1)
  /\ Len(submitted[1]) = 2
  /\ \E k \in DOMAIN submitted[1] : Rejected(submitted[1][k])
  /\ ChunkSize(1) = 1
  /\ result[1] = <<1, <<>>>>

\* C6: an error the transport raises reaches the caller of update()
\* unchanged, with no result and no completion notification; items reported
\* as failed inside a sequential bulk call are returned, not raised.
C6_ErrorsSurface ==
  \A c \in CallIds :
    /\ transport_error[c] # "none" =>
         /\ pc[c] = "raised"
         /\ error[c] = transport_error[c]
         /\ result[c] = Nothing
         /\ SignalsOf(c) = <<>>
    /\ (pc[c] = "returned" /\ SequentialMode(c)) =>
         /\ error[c] = "none"
         /\ LET failed == SelectSeq(submitted[c], LAMBDA a : Rejected(a))
            IN result[c][2] = [k \in DOMAIN failed |-> failed[k]["_id"]]
    /\ error[c] # "none" => transport_error[c] = error[c]

C6_Witness ==
  /\ pc[1] = "raised"
  /\ error[1] = "ConnectionError"
  /\ ParallelMode(1)
  /\ Len(submitted[1]) = 1
  /\ signals = <<>>

\* C10: under every interleaving of two update() calls on one document
\* instance, each call submits the action stream and gets the result it would
\* alone, and the document instance stays as constructed.
C10_Independent ==
  /\ \A c \in CallIds :
       pc[c] = "returned" =>
         /\ submitted[c] = ActionStream(c)
         /\ result[c] = IF ParallelMode(c) THEN <<1, <<>>>>
                        ELSE BulkResponse(ActionStream(c))
  /\ Constructed(declared_fields, methods_at_init, related_instance_to_ignore)

C10_Witness ==
  /\ pc[1] = "returned"
  /\ pc[2] = "returned"
  /\ Len(submitted[1]) = 1
  /\ Len(submitted[2]) = 1
  /\ submitted[1] # submitted[2]
  /\ ParallelMode(1)
  /\ ~ParallelMode(2)

====
